---- MODULE Spec2Model ----
(***************************************************************************)
(* Model of the astrocyte_db_prototype pipeline:                           *)
(*   - producers append mono-originated events to the Redis input streams, *)
(*   - the leaflet domain (CEP worker, src/src/leaflet_domain.py) reads    *)
(*     them through a consumer group, buffers them, evaluates the          *)
(*     correlation rules and appends multi-originated events to the        *)
(*     integrated stream,                                                  *)
(*   - the storage manager (src/src/storage_manager.py) archives all       *)
(*     streams into PostgreSQL.                                            *)
(* Time is counted in whole seconds.                                       *)
(***************************************************************************)
EXTENDS Integers, Sequences, FiniteSets, Bags, TLC

\* ------------------------------------------------------------------ bounds
\* Number of entries the producers append in one behaviour.
MaxEvents == 3
\* Last instant of the clock.
MaxTime == 3
\* Number of times the CEP worker process is killed and restarted.
MaxCrashes == 1
\* Number of iterations each archival loop runs.
MaxCycles == 2
\* Last timestamp of the events handed to the rule engine directly.
MaxStamp == 1
\* most source events of a MultiOriginatedEvent passed through the dict format
MaxSources == 2
\* Number of events pushed into a buffer that earlier pushes have filled.
MaxPushes == 1
\* Number of calls of stop_archival_loop.
MaxStops == 1

\* ------------------------------------------------------- program constants
\* config.CORRELATION_WINDOW_SECONDS (2.0 s)
CORRELATION_WINDOW_SECONDS == 2
\* config.EVENT_BATCH_SIZE (10 in the source, scaled to the model's streams)
EVENT_BATCH_SIZE == 2
\* config.MAX_PENDING_EVENTS (100 in the source, scaled)
MAX_PENDING_EVENTS == 4
\* config.MAX_EVENTS_PER_ARCHIVE_BATCH (1000 in the source, scaled)
MAX_EVENTS_PER_ARCHIVE_BATCH == 2
\* config.REDIS_TTL_SECONDS (300 s in the source, scaled to the model's clock)
REDIS_TTL_SECONDS == 2
\* demo_workflow.main: demo_duration, the time after which the caller of the
\* worker generator stops iterating (30 in the source)
DemoDuration == 2

\* config.STREAM_AXON_1..3, in the order process_integration passes them
InputStreams == <<"axon_1", "axon_2", "axon_3">>
STREAM_INTEGRATED == "integrated_events"
StreamSet == {InputStreams[i] : i \in 1..Len(InputStreams)}

\* the values an event can carry (random.uniform over
\* config.PRODUCER_VALUE_RANGE in the source)
Values == {10, 20}

\* types.EventType, the mono-originated tags
EventTypes == {"A", "B", "C"}
\* the producer threads of demo_workflow.main: one per stream, each with its
\* event type
ProducerType == [s \in StreamSet |->
                   IF s = "axon_1" THEN "A" ELSE IF s = "axon_2" THEN "B" ELSE "C"]

\* the value each producer thread draws in the behaviours of the pipeline;
\* the worker and the archiver copy the value and never branch on it
ProducerValue == [s \in StreamSet |-> IF s = "axon_1" THEN 10 ELSE 20]

\* LeafletDomain._init_correlation_rules: the rule table, in dict order
RuleNames == <<"type_A_and_B_within_window", "type_A_B_C_convergence">>
correlation_rules ==
  [r \in {RuleNames[i] : i \in 1..Len(RuleNames)} |->
     IF r = "type_A_and_B_within_window"
       THEN [duration_seconds |-> CORRELATION_WINDOW_SECONDS,
             required_event_types |-> {"A", "B"}, min_events |-> 2]
       ELSE [duration_seconds |-> CORRELATION_WINDOW_SECONDS,
             required_event_types |-> {"A", "B", "C"}, min_events |-> 3]]

\* ---------------------------------------------------------------- helpers
Range(s) == {s[i] : i \in 1..Len(s)}
Min2(a, b) == IF a <= b THEN a ELSE b
Max2(a, b) == IF a >= b THEN a ELSE b

RECURSIVE Concat(_)
Concat(ss) == IF ss = <<>> THEN <<>> ELSE Head(ss) \o Concat(Tail(ss))

VARIABLES
  now,         \* the wall clock, datetime.now()
  streams,     \* the Redis input streams: stream name -> sequence of entries
               \* (the broker message id of an entry is its index)
  integrated,  \* the Redis stream config.STREAM_INTEGRATED
  trimmed,     \* per stream: how many entries xtrim has deleted from its head
  codec,       \* an event on its way through to_redis_dict and from_redis_dict
  pc,          \* position of the CEP worker in process_stream_to_integration
  event_buffer,\* LeafletDomain.event_buffer
  delivered,   \* consumer group cursor per stream (last id delivered with ">")
  pel,         \* the group's pending entries list: delivered, not acknowledged
  batch,       \* messages returned by xreadgroup, not yet processed
  ruleIdx,     \* next rule of the "for rule_name" loop
  crashes,     \* number of kills of the worker so far
  apc,         \* per archiver: position in start_archival_loop / _archive_batch
  astream,     \* per archiver: index of the stream _archive_batch is at
  amsgs,       \* per archiver: message ids returned by xread, not yet handled
  session,     \* per archiver: rows added to its AsyncSession, not committed
  cycles,      \* per archiver: completed iterations of the archival loop
  mono_events,          \* table mono_events (committed rows)
  multi_events,         \* table multi_events (committed rows)
  event_archive_status, \* table event_archive_status (committed rows)
  manager      \* per archiver: its StorageManager's running flag, and how
               \* often stop_archival_loop has been called on it

cepVars == <<integrated, pc, event_buffer, delivered, pel, batch, ruleIdx, crashes>>
archVars == <<manager, apc, astream, amsgs, session, cycles,
              mono_events, multi_events, event_archive_status>>
vars == <<now, streams, trimmed, codec, cepVars, archVars>>

Produced == Len(streams["axon_1"]) + Len(streams["axon_2"]) + Len(streams["axon_3"])

\* uuid4(): a fresh id; mono and multi events draw from disjoint ranges (I1).
MonoUuid == <<"mono", Produced + 1>>
MultiUuid == <<"multi", Len(integrated) + 1>>

\* ------------------------------------------------------------ event model
\* MonoOriginatedEvent.to_redis_dict as stored by xadd: the fields of a broker
\* entry.  decodable = FALSE stands for an entry that from_redis_dict rejects
\* (missing field, bad number, bad timestamp, bad uuid, invalid JSON).
MonoEntry(id, ts, ty, v, ok) ==
  [event_id |-> id, timestamp |-> ts, event_type |-> ty, value |-> v,
   decodable |-> ok]

\* The same entry with the source_stream field that to_redis_dict writes, for
\* the behaviours in which it can differ from the stream the entry is in.
MonoEntryWithSource(id, ts, src, ty, v) ==
  [event_id |-> id, timestamp |-> ts, source_stream |-> src,
   event_type |-> ty, value |-> v, decodable |-> TRUE]

\* from_redis_dict on the entry as it is, its own source_stream kept
\* (mutation)
FromRedisDictKeepsField(stream_name, entry) ==
  [event_id |-> entry.event_id, timestamp |-> entry.timestamp,
   source_stream |-> entry.source_stream, event_type |-> entry.event_type,
   value |-> entry.value]

\* MonoOriginatedEvent.from_redis_dict on the entry with source_stream
\* overwritten by the stream the entry was read from.
FromRedisDict(stream_name, entry) ==
  [event_id |-> entry.event_id, timestamp |-> entry.timestamp,
   source_stream |-> stream_name, event_type |-> entry.event_type,
   value |-> entry.value]

\* --------------------------------------------------- the Redis dict format
\* A string is a sequence of tokens; str(x) of a scalar (UUID, datetime in
\* ISO format, enum value, float) is the one-token string of that scalar.
Comma == <<",">>
Str(x) == << <<"text", x>> >>
\* UUID(s), datetime.fromisoformat(s), EventType(s), float(s): the scalar of
\* a one-token string; anything else raises
IsScalarText(s) == Len(s) = 1 /\ s[1] # Comma
Scalar(s) == s[1][2]

\* ",".join(strings) without the separators (mutation)
JoinUnseparated(strings) ==
  IF strings = <<>> THEN <<>> ELSE Concat(strings)

\* ",".join(strings)
RECURSIVE Join(_)
Join(strings) ==
  IF strings = <<>> THEN <<>>
  ELSE IF Len(strings) = 1 THEN strings[1]
  ELSE strings[1] \o <<Comma>> \o Join(Tail(strings))

\* s.split(","): the pieces between the separators; one (empty) piece for
\* the empty string
RECURSIVE Split(_)
Split(s) ==
  IF \A i \in 1..Len(s) : s[i] # Comma THEN <<s>>
  ELSE LET k == CHOOSE i \in 1..Len(s) :
                  s[i] = Comma /\ \A j \in 1..(i - 1) : s[j] # Comma
       IN  <<SubSeq(s, 1, k - 1)>> \o Split(SubSeq(s, k + 1, Len(s)))

\* json.dumps(d) and json.loads(s): the text of a dict, never empty
JsonDumps(d) == << <<"json", d>> >>
JsonLoads(s) == s[1][2]

\* MonoOriginatedEvent.to_redis_dict
MonoToRedisDict(e) ==
  [event_id |-> Str(e.event_id), timestamp |-> Str(e.timestamp),
   source_stream |-> e.source_stream, event_type |-> Str(e.event_type),
   value |-> Str(e.value), metadata |-> JsonDumps(e.metadata)]

\* MonoOriginatedEvent.from_redis_dict: <<>> when a field does not parse
MonoFromRedisDict(data) ==
  IF /\ IsScalarText(data.event_id) /\ IsScalarText(data.timestamp)
     /\ IsScalarText(data.event_type) /\ IsScalarText(data.value)
     /\ Scalar(data.event_type) \in EventTypes \cup {"MULTI_ORIGINATED"}
    THEN <<[event_id |-> Scalar(data.event_id),
            timestamp |-> Scalar(data.timestamp),
            source_stream |-> data.source_stream,
            event_type |-> Scalar(data.event_type),
            value |-> Scalar(data.value),
            metadata |-> IF data.metadata # <<>>
                           THEN JsonLoads(data.metadata)
                           ELSE {}]>>
    ELSE <<>>

\* MultiOriginatedEvent.to_redis_dict
MultiToRedisDict(m) ==
  [event_id |-> Str(m.event_id), timestamp |-> Str(m.timestamp),
   event_type |-> Str(m.event_type),
   source_events |-> Join([i \in 1..Len(m.source_events) |-> Str(m.source_events[i])]),
   correlation_rule |-> m.correlation_rule,
   integrated_value |-> Str(m.integrated_value),
   confidence |-> Str(m.confidence),
   lineage |-> JsonDumps(m.lineage)]

\* MultiOriginatedEvent.from_redis_dict: event_type is not read and takes its
\* default; <<>> when a field does not parse or confidence is outside [0, 1]
MultiFromRedisDict(data) ==
  LET pieces == Split(data.source_events)
  IN  IF /\ IsScalarText(data.event_id) /\ IsScalarText(data.timestamp)
         /\ \A i \in 1..Len(pieces) : IsScalarText(pieces[i])
         /\ IsScalarText(data.integrated_value)
         /\ IsScalarText(data.confidence)
         /\ 0 <= Scalar(data.confidence).num
         /\ Scalar(data.confidence).num <= Scalar(data.confidence).den
        THEN <<[event_id |-> Scalar(data.event_id),
                timestamp |-> Scalar(data.timestamp),
                event_type |-> "MULTI_ORIGINATED",
                source_events |-> [i \in 1..Len(pieces) |-> Scalar(pieces[i])],
                correlation_rule |-> data.correlation_rule,
                integrated_value |-> Scalar(data.integrated_value),
                confidence |-> Scalar(data.confidence),
                lineage |-> JsonLoads(data.lineage)]>>
        ELSE <<>>

\* ------------------------------------------------------- sliding window
\* a full buffer that refuses the new event instead (mutation)
DequeAppendDropNew(buf, e) ==
  IF Len(buf) >= MAX_PENDING_EVENTS THEN buf ELSE buf \o <<e>>

\* deque(maxlen=MAX_PENDING_EVENTS).append: a full deque drops its head.
DequeAppend(buf, e) ==
  IF Len(buf) >= MAX_PENDING_EVENTS THEN Tail(buf) \o <<e>> ELSE buf \o <<e>>

\* a prune that removes every expired event, wherever it stands (mutation)
PruneExpiredAnywhere(buf, t) ==
  LET Fresh(e) == e.timestamp >= t - CORRELATION_WINDOW_SECONDS
  IN  SelectSeq(buf, Fresh)

\* a prune that removes nothing (mutation)
PruneNothing(buf, t) == buf

\* LeafletDomain._prune_expired_events: pop from the head while the head is
\* older than the cutoff.
RECURSIVE PruneExpired(_, _)
PruneExpired(buf, t) ==
  IF buf # <<>> /\ Head(buf).timestamp < t - CORRELATION_WINDOW_SECONDS
    THEN PruneExpired(Tail(buf), t)
    ELSE buf

\* LeafletDomain.add_event
AddEvent(buf, e, t) == PruneExpired(DequeAppend(buf, e), t)

\* ----------------------------------------------------------- rule engine
\* the earliest event of a source_stream instead of the latest (mutation)
FirstOf(evs, s) ==
  LET idx == {i \in 1..Len(evs) : evs[i].source_stream = s}
      i == CHOOSE k \in idx : \A j \in idx : j >= k
  IN  evs[i]

\* the lineage dict comprehension: a later event of the same source_stream
\* overwrites an earlier one.
LastOf(evs, s) ==
  LET idx == {i \in 1..Len(evs) : evs[i].source_stream = s}
      i == CHOOSE k \in idx : \A j \in idx : j <= k
  IN  evs[i]

\* a lineage that keeps the entry of the first event's stream only (mutation)
LineageFirstStreamOnly(evs) ==
  [s \in {evs[1].source_stream} |->
     [event_id |-> evs[1].event_id, timestamp |-> evs[1].timestamp,
      value |-> evs[1].value]]

Lineage(evs) ==
  [s \in {evs[i].source_stream : i \in 1..Len(evs)} |->
     [event_id |-> LastOf(evs, s).event_id,
      timestamp |-> LastOf(evs, s).timestamp,
      value |-> LastOf(evs, s).value]]

\* sum(e.value for e in source_events)
RECURSIVE SumValues(_)
SumValues(evs) ==
  IF evs = <<>> THEN 0 ELSE Head(evs).value + SumValues(Tail(evs))

\* the mean of the first and the last source event only (mutation)
IntegratedValueEnds(source_events) ==
  [num |-> source_events[1].value + source_events[Len(source_events)].value,
   den |-> 2]

\* line 119: sum(...) / len(source_events), kept as the exact quotient
\* num / den
IntegratedValue(source_events) ==
  [num |-> SumValues(source_events), den |-> Len(source_events)]

\* len(source_events) / 3.0 without the cap (mutation)
ConfidenceUncapped(source_events) ==
  [num |-> Len(source_events), den |-> 3]

\* line 120: min(1.0, len(source_events) / 3.0), kept as the exact quotient
\* num / den
Confidence(source_events) ==
  [num |-> Min2(3, Len(source_events)), den |-> 3]

\* a MultiOriginatedEvent that also cites the event the producers will
\* create next (mutation)
CreateCitingNext(source_events, rule_name, id) ==
  [event_id |-> id, timestamp |-> now, correlation_rule |-> rule_name,
   source_events |-> [i \in 1..Len(source_events) |-> source_events[i].event_id]
                       \o <<MonoUuid>>,
   integrated_value |-> IntegratedValue(source_events),
   confidence |-> Confidence(source_events),
   lineage |-> Lineage(source_events), decodable |-> TRUE]

\* LeafletDomain._create_multi_originated_event
CreateMultiOriginatedEvent(source_events, rule_name, id) ==
  [event_id |-> id, timestamp |-> now, correlation_rule |-> rule_name,
   source_events |-> [i \in 1..Len(source_events) |-> source_events[i].event_id],
   integrated_value |-> IntegratedValue(source_events),
   confidence |-> Confidence(source_events),
   lineage |-> Lineage(source_events), decodable |-> TRUE]

\* check_correlation without the test on event_types_found (mutation)
CheckCorrelationAnyTypes(buf, rule_name, id) ==
  IF rule_name \notin DOMAIN correlation_rules THEN <<>>
  ELSE
    LET rule == correlation_rules[rule_name]
        InRule(e) == e.event_type \in rule.required_event_types
        matching_events == SelectSeq(buf, InRule)
    IN  IF Len(matching_events) >= rule.min_events
          THEN <<CreateMultiOriginatedEvent(matching_events, rule_name, id)>>
          ELSE <<>>

\* check_correlation that keeps only the first buffered event of each
\* required type (mutation)
CheckCorrelationFirstPerType(buf, rule_name, id) ==
  IF rule_name \notin DOMAIN correlation_rules THEN <<>>
  ELSE
    LET rule == correlation_rules[rule_name]
        first == {i \in 1..Len(buf) :
                    /\ buf[i].event_type \in rule.required_event_types
                    /\ \A j \in 1..(i - 1) : buf[j].event_type # buf[i].event_type}
        Nth(k) == CHOOSE i \in first : Cardinality({j \in first : j <= i}) = k
        matching_events == [k \in 1..Cardinality(first) |-> buf[Nth(k)]]
        event_types_found == {matching_events[i].event_type :
                                i \in 1..Len(matching_events)}
    IN  IF rule.required_event_types \subseteq event_types_found
           /\ Len(matching_events) >= rule.min_events
          THEN <<CreateMultiOriginatedEvent(matching_events, rule_name, id)>>
          ELSE <<>>

\* check_correlation that cites only the last-arrived buffered event of each
\* required type (mutation)
CheckCorrelationNewestPerType(buf, rule_name, id) ==
  IF rule_name \notin DOMAIN correlation_rules THEN <<>>
  ELSE
    LET rule == correlation_rules[rule_name]
        last == {i \in 1..Len(buf) :
                   /\ buf[i].event_type \in rule.required_event_types
                   /\ \A j \in (i + 1)..Len(buf) : buf[j].event_type # buf[i].event_type}
        Nth(k) == CHOOSE i \in last : Cardinality({j \in last : j <= i}) = k
        matching_events == [k \in 1..Cardinality(last) |-> buf[Nth(k)]]
        event_types_found == {matching_events[i].event_type :
                                i \in 1..Len(matching_events)}
    IN  IF rule.required_event_types \subseteq event_types_found
           /\ Len(matching_events) >= rule.min_events
          THEN <<CreateMultiOriginatedEvent(matching_events, rule_name, id)>>
          ELSE <<>>

\* check_correlation that cuts the matching events to the last min_events of
\* them (mutation)
CheckCorrelationMinEvents(buf, rule_name, id) ==
  IF rule_name \notin DOMAIN correlation_rules THEN <<>>
  ELSE
    LET rule == correlation_rules[rule_name]
        InRule(e) == e.event_type \in rule.required_event_types
        all == SelectSeq(buf, InRule)
        matching_events ==
          IF Len(all) > rule.min_events
            THEN SubSeq(all, Len(all) - rule.min_events + 1, Len(all))
            ELSE all
        event_types_found == {matching_events[i].event_type :
                                i \in 1..Len(matching_events)}
    IN  IF rule.required_event_types \subseteq event_types_found
           /\ Len(matching_events) >= rule.min_events
          THEN <<CreateMultiOriginatedEvent(matching_events, rule_name, id)>>
          ELSE <<>>

\* LeafletDomain.check_correlation: <<>> for None, <<m>> for a MultiOriginatedEvent
CheckCorrelation(buf, rule_name, id) ==
  IF rule_name \notin DOMAIN correlation_rules THEN <<>>
  ELSE
    LET rule == correlation_rules[rule_name]
        InRule(e) == e.event_type \in rule.required_event_types
        matching_events == SelectSeq(buf, InRule)
        event_types_found == {matching_events[i].event_type :
                                i \in 1..Len(matching_events)}
    IN  IF rule.required_event_types \subseteq event_types_found
           /\ Len(matching_events) >= rule.min_events
          THEN <<CreateMultiOriginatedEvent(matching_events, rule_name, id)>>
          ELSE <<>>

\* ------------------------------------------------------- storage manager
\* the processes running StorageManager.start_archival_loop
Archivers == {"a1", "a2"}

\* the streams _archive_batch goes through, in its order
ArchiveStreams == InputStreams \o <<STREAM_INTEGRATED>>
IsMulti(s) == s = STREAM_INTEGRATED
StreamContent(s) == IF IsMulti(s) THEN integrated ELSE streams[s]

\* a read that returns the newest entries of the stream (mutation)
XReadLatest(s) ==
  LET n == Min2(Len(StreamContent(s)) - trimmed[s], MAX_EVENTS_PER_ARCHIVE_BATCH)
  IN  [i \in 1..n |-> Len(StreamContent(s)) - n + i]

\* redis.xread({stream: "0"}, count=MAX_EVENTS_PER_ARCHIVE_BATCH): the ids of
\* the first entries the stream still holds
XRead(s) ==
  [i \in 1..Min2(Len(StreamContent(s)) - trimmed[s], MAX_EVENTS_PER_ARCHIVE_BATCH)
     |-> trimmed[s] + i]

\* a session with nothing added
EmptySession == [mono |-> EmptyBag, multi |-> EmptyBag, status |-> EmptyBag]

\* _store_mono_event: the MonoEvent row of an entry
MonoRow(stream_name, entry) == FromRedisDict(stream_name, entry)

\* _store_multi_event: the MultiEvent row of an entry of the integrated stream
MultiRow(entry) ==
  [event_id |-> entry.event_id, timestamp |-> entry.timestamp,
   correlation_rule |-> entry.correlation_rule,
   source_events |-> entry.source_events,
   integrated_value |-> entry.integrated_value,
   confidence |-> entry.confidence, lineage |-> entry.lineage]

\* the EventArchiveStatus row marking an entry archived
StatusRow(stream_name, redis_message_id, entry) ==
  [stream_name |-> stream_name, redis_message_id |-> redis_message_id,
   event_id |-> entry.event_id]

EventPk(row) == row.event_id
StatusPk(row) == <<row.stream_name, row.redis_message_id>>

\* an event table holding two rows with the same primary key
EventPkViolated(table) ==
  \E r1, r2 \in BagToSet(table) :
    EventPk(r1) = EventPk(r2) /\ (r1 # r2 \/ CopiesIn(r1, table) > 1)

\* a status table holding two rows with the same primary key
StatusPkViolated(table) ==
  \E r1, r2 \in BagToSet(table) :
    StatusPk(r1) = StatusPk(r2) /\ (r1 # r2 \/ CopiesIn(r1, table) > 1)

\* a database without the primary keys (mutation)
IntegrityErrorNever(a) == FALSE

\* what the database answers to the INSERTs of a session: the primary keys of
\* mono_events (event_id), multi_events (event_id) and event_archive_status
\* (stream_name, redis_message_id) reject a row whose key is taken.  A session
\* that waits on a row lock of another open transaction and is rejected when
\* that one commits is modelled as rejected at its own next flush.
IntegrityError(a) ==
  \/ EventPkViolated(mono_events (+) session[a].mono)
  \/ EventPkViolated(multi_events (+) session[a].multi)
  \/ StatusPkViolated(event_archive_status (+) session[a].status)

\* the look-up without its stream_name condition (mutation)
AlreadyArchivedAnyStream(a, stream_name, redis_message_id) ==
  \E r \in BagToSet(event_archive_status (+) session[a].status) :
    r.redis_message_id = redis_message_id

\* select(EventArchiveStatus).where(stream_name, redis_message_id): the
\* committed rows and the session's own
AlreadyArchived(a, stream_name, redis_message_id) ==
  \E r \in BagToSet(event_archive_status (+) session[a].status) :
    StatusPk(r) = <<stream_name, redis_message_id>>

ArchInit ==
  /\ manager = [a \in Archivers |-> [running |-> TRUE, stop_calls |-> 0]]
  /\ apc = [a \in Archivers |-> "idle"]
  /\ astream = [a \in Archivers |-> 1]
  /\ amsgs = [a \in Archivers |-> <<>>]
  /\ session = [a \in Archivers |-> EmptySession]
  /\ cycles = [a \in Archivers |-> 0]
  /\ mono_events = EmptyBag
  /\ multi_events = EmptyBag
  /\ event_archive_status = EmptyBag

\* ------------------------------------------------------------------ Init
\* no event is passing through to_redis_dict and from_redis_dict
NoCodec == [kind |-> "none", step |-> "idle", obj |-> <<>>, wire |-> <<>>, out |-> <<>>]

WorkerInit ==
  /\ pc = "start"
  /\ event_buffer = <<>>
  /\ delivered = [s \in StreamSet |-> 0]
  /\ pel = {}
  /\ batch = <<>>
  /\ ruleIdx = 1
  /\ crashes = 0

Init ==
  /\ now = 0
  /\ streams = [s \in StreamSet |-> <<>>]
  /\ integrated = <<>>
  /\ trimmed = [s \in StreamSet \cup {STREAM_INTEGRATED} |-> 0]
  /\ WorkerInit
  /\ ArchInit
  /\ codec = NoCodec

\* --------------------------------------------------------------- actions
\* The clock advances.
Tick ==
  /\ now < MaxTime
  /\ now' = now + 1
  /\ UNCHANGED <<streams, trimmed, codec, cepVars, archVars>>

\* An upstream producer creates a mono event, stamped with the clock
\* (generate_events), and appends it to its stream (xadd in produce_events).
Produce(s, v, ok) ==
  /\ Produced < MaxEvents
  /\ streams' = [streams EXCEPT ![s] =
                   Append(@, MonoEntry(MonoUuid, now, ProducerType[s], v, ok))]
  /\ UNCHANGED <<now, trimmed, codec, cepVars, archVars>>

\* process_stream_to_integration, lines 157-172: a fresh LeafletDomain, the
\* consumer group is created at id "0" unless it exists.
CepStart ==
  /\ pc = "start"
  /\ event_buffer' = <<>>
  /\ batch' = <<>>
  /\ ruleIdx' = 1
  /\ pc' = "read"
  /\ UNCHANGED <<now, streams, trimmed, codec, integrated, delivered, pel, crashes, archVars>>

\* the entries xreadgroup(">", count) hands out for one stream
NewIds(s) ==
  LET first == Max2(delivered[s], trimmed[s]) + 1
      last == Min2(Len(streams[s]), first - 1 + EVENT_BATCH_SIZE)
  IN  [i \in 1..(IF last >= first THEN last - first + 1 ELSE 0) |->
         <<s, first + i - 1>>]

\* xreadgroup on every input stream with id ">": each stream's next entries,
\* streams in the order given.  A read that times out empty leaves the state
\* as it is.
CepRead ==
  /\ pc = "read"
  /\ \E s \in StreamSet : NewIds(s) # <<>>
  /\ LET msgs == Concat([i \in 1..Len(InputStreams) |-> NewIds(InputStreams[i])])
     IN  /\ batch' = msgs
         /\ pel' = pel \cup Range(msgs)
         /\ delivered' = [s \in StreamSet |->
                            IF NewIds(s) = <<>> THEN delivered[s]
                            ELSE NewIds(s)[Len(NewIds(s))][2]]
  /\ pc' = "ingest"
  /\ UNCHANGED <<now, streams, trimmed, codec, integrated, event_buffer, ruleIdx, crashes, archVars>>

\* lines 188-193: decode the entry and add it to the buffer.  An entry that
\* from_redis_dict rejects raises out of the generator.
CepIngest ==
  /\ pc = "ingest"
  /\ batch # <<>>
  /\ LET m == Head(batch)
         entry == streams[m[1]][m[2]]
     IN  IF entry.decodable
           THEN /\ event_buffer' = AddEvent(event_buffer, FromRedisDict(m[1], entry), now)
                /\ ruleIdx' = 1
                /\ pc' = "check"
           ELSE /\ pc' = "failed"
                /\ UNCHANGED <<event_buffer, ruleIdx>>
  /\ UNCHANGED <<now, streams, trimmed, codec, integrated, delivered, pel, batch, crashes, archVars>>

\* a rule loop that evaluates the first rule of the table only (mutation)
CepCheckFirstRuleOnly ==
  /\ pc = "check"
  /\ ruleIdx <= Len(RuleNames)
  /\ LET multi_event == IF ruleIdx = 1
                          THEN CheckCorrelation(event_buffer, RuleNames[ruleIdx], MultiUuid)
                          ELSE <<>>
     IN  integrated' = integrated \o multi_event
  /\ ruleIdx' = ruleIdx + 1
  /\ UNCHANGED <<now, streams, trimmed, codec, pc, event_buffer, delivered, pel, batch, crashes, archVars>>

\* a rule evaluation that takes the events it cites out of the buffer
\* (mutation)
CepCheckConsuming ==
  /\ pc = "check"
  /\ ruleIdx <= Len(RuleNames)
  /\ LET multi_event == CheckCorrelation(event_buffer, RuleNames[ruleIdx], MultiUuid)
         Kept(e) == \/ multi_event = <<>>
                    \/ \A i \in 1..Len(multi_event[1].source_events) :
                         multi_event[1].source_events[i] # e.event_id
     IN  /\ integrated' = integrated \o multi_event
         /\ event_buffer' = SelectSeq(event_buffer, Kept)
  /\ ruleIdx' = ruleIdx + 1
  /\ UNCHANGED <<now, streams, trimmed, codec, pc, delivered, pel, batch, crashes, archVars>>

\* a rule loop that calls the rule engine twice for each rule and appends
\* both results (mutation)
CepCheckTwice ==
  /\ pc = "check"
  /\ ruleIdx <= Len(RuleNames)
  /\ LET first == CheckCorrelation(event_buffer, RuleNames[ruleIdx], MultiUuid)
         second == CheckCorrelation(event_buffer, RuleNames[ruleIdx],
                                    <<"multi", Len(integrated) + Len(first) + 1>>)
     IN  integrated' = integrated \o first \o second
  /\ ruleIdx' = ruleIdx + 1
  /\ UNCHANGED <<now, streams, trimmed, codec, pc, event_buffer, delivered, pel, batch, crashes, archVars>>

\* lines 196-202: one iteration of the rule loop; a MultiOriginatedEvent is
\* appended to the output stream.
CepCheck ==
  /\ pc = "check"
  /\ ruleIdx <= Len(RuleNames)
  /\ LET multi_event == CheckCorrelation(event_buffer, RuleNames[ruleIdx], MultiUuid)
     IN  integrated' = integrated \o multi_event
  /\ ruleIdx' = ruleIdx + 1
  /\ UNCHANGED <<now, streams, trimmed, codec, pc, event_buffer, delivered, pel, batch, crashes, archVars>>

\* the xack issued before the rule loop has run (mutation)
CepAckEarly ==
  /\ pc = "check"
  /\ pel' = pel \ {Head(batch)}
  /\ batch' = Tail(batch)
  /\ pc' = IF Tail(batch) = <<>> THEN "read" ELSE "ingest"
  /\ UNCHANGED <<now, streams, trimmed, codec, integrated, event_buffer, delivered, ruleIdx, crashes, archVars>>

\* line 205: xack of the entry, then the next entry of the batch or the
\* next read.
CepAck ==
  /\ pc = "check"
  /\ ruleIdx > Len(RuleNames)
  /\ pel' = pel \ {Head(batch)}
  /\ batch' = Tail(batch)
  /\ pc' = IF Tail(batch) = <<>> THEN "read" ELSE "ingest"
  /\ UNCHANGED <<now, streams, trimmed, codec, integrated, event_buffer, delivered, ruleIdx, crashes, archVars>>

\* lines 196-202 with the generator's suspension made a step of its own: the
\* MultiOriginatedEvent is appended to the output stream and yielded, and the
\* generator stays suspended at the yield until its caller asks for the next
\* event.
CepCheckYield ==
  /\ pc = "check"
  /\ ruleIdx <= Len(RuleNames)
  /\ LET multi_event == CheckCorrelation(event_buffer, RuleNames[ruleIdx], MultiUuid)
     IN  /\ integrated' = integrated \o multi_event
         /\ pc' = IF multi_event = <<>> THEN "check" ELSE "yielded"
  /\ ruleIdx' = ruleIdx + 1
  /\ UNCHANGED <<now, streams, trimmed, codec, event_buffer, delivered, pel, batch, crashes, archVars>>

\* process_integration, lines 98-101: the for loop takes the yielded event,
\* finds the deadline not passed and resumes the generator
CallerResume ==
  /\ pc = "yielded"
  /\ now <= DemoDuration
  /\ pc' = "check"
  /\ UNCHANGED <<now, streams, trimmed, codec, integrated, event_buffer, delivered, pel, batch, ruleIdx, crashes, archVars>>

\* a caller whose break lets the generator run on to its xack (mutation)
CallerBreakAcks ==
  /\ pc = "yielded"
  /\ now > DemoDuration
  /\ pc' = "closed"
  /\ pel' = pel \ {Head(batch)}
  /\ UNCHANGED <<now, streams, trimmed, codec, integrated, event_buffer, delivered, batch, ruleIdx, crashes, archVars>>

\* process_integration, lines 99-100: the deadline has passed, the for loop
\* breaks and the generator is closed where it is suspended
CallerBreak ==
  /\ pc = "yielded"
  /\ now > DemoDuration
  /\ pc' = "closed"
  /\ UNCHANGED <<now, streams, trimmed, codec, integrated, event_buffer, delivered, pel, batch, ruleIdx, crashes, archVars>>

\* xreadgroup, xadd or xack raises a redis error (connection lost, timeout):
\* no handler surrounds the calls, the exception leaves the generator, whose
\* frame and LeafletDomain are released, and ends the caller's for loop.
CepBrokerError ==
  /\ pc \in {"read", "check"}
  /\ pc' = "failed"
  /\ event_buffer' = <<>>
  /\ UNCHANGED <<now, streams, trimmed, codec, integrated, delivered, pel, batch, ruleIdx, crashes, archVars>>

\* The worker process is killed at any point and started again: everything
\* it held in memory is lost, the broker keeps the group's cursor and its
\* pending entries.
CepCrash ==
  /\ crashes < MaxCrashes
  /\ pc \in {"read", "ingest", "check"}
  /\ crashes' = crashes + 1
  /\ pc' = "start"
  /\ UNCHANGED <<now, streams, trimmed, codec, integrated, event_buffer, delivered, pel, batch, ruleIdx, archVars>>

\* ---------------------------------------------------------------- archiver
\* an exception that leaves the rows flushed so far in the tables, as with an
\* autocommit connection (mutation)
RollbackKeepsFlushed(a) ==
  /\ apc' = [apc EXCEPT ![a] = "idle"]
  /\ astream' = [astream EXCEPT ![a] = 1]
  /\ amsgs' = [amsgs EXCEPT ![a] = <<>>]
  /\ session' = [session EXCEPT ![a] = EmptySession]
  /\ cycles' = [cycles EXCEPT ![a] = @ + 1]
  /\ mono_events' = mono_events (+) session[a].mono
  /\ multi_events' = multi_events (+) session[a].multi
  /\ UNCHANGED event_archive_status

\* an exception that ends the archival loop instead of its iteration
\* (mutation)
RollbackStopsLoop(a) ==
  /\ apc' = [apc EXCEPT ![a] = "stopped"]
  /\ astream' = [astream EXCEPT ![a] = 1]
  /\ amsgs' = [amsgs EXCEPT ![a] = <<>>]
  /\ session' = [session EXCEPT ![a] = EmptySession]
  /\ cycles' = [cycles EXCEPT ![a] = @ + 1]
  /\ UNCHANGED <<mono_events, multi_events, event_archive_status>>

\* an exception leaves "async with async_session_maker()": the session is
\* closed without commit and start_archival_loop's except clause ends the
\* iteration
Rollback(a) ==
  /\ apc' = [apc EXCEPT ![a] = "idle"]
  /\ astream' = [astream EXCEPT ![a] = 1]
  /\ amsgs' = [amsgs EXCEPT ![a] = <<>>]
  /\ session' = [session EXCEPT ![a] = EmptySession]
  /\ cycles' = [cycles EXCEPT ![a] = @ + 1]
  /\ UNCHANGED <<mono_events, multi_events, event_archive_status>>

\* _archive_stream returns: _archive_batch goes to the next stream, or to
\* session.commit() after the last
NextStream(a) ==
  IF astream[a] < Len(ArchiveStreams)
    THEN /\ astream' = [astream EXCEPT ![a] = @ + 1]
         /\ apc' = [apc EXCEPT ![a] = "read"]
    ELSE /\ apc' = [apc EXCEPT ![a] = "commit"]
         /\ UNCHANGED astream

\* start_archival_loop, one iteration begins: _archive_batch opens a session
ArchBegin(a) ==
  /\ apc[a] = "idle"
  /\ manager[a].running
  /\ cycles[a] < MaxCycles
  /\ apc' = [apc EXCEPT ![a] = "read"]
  /\ UNCHANGED <<now, streams, trimmed, codec, manager, cepVars, astream, amsgs, session, cycles,
                 mono_events, multi_events, event_archive_status>>

\* _archive_stream, lines 83-89: xread of the stream from id 0
ArchRead(a) ==
  /\ apc[a] = "read"
  /\ LET messages == XRead(ArchiveStreams[astream[a]])
     IN  IF messages = <<>>
           THEN /\ NextStream(a)
                /\ UNCHANGED amsgs
           ELSE /\ amsgs' = [amsgs EXCEPT ![a] = messages]
                /\ apc' = [apc EXCEPT ![a] = "entry"]
                /\ UNCHANGED astream
  /\ UNCHANGED <<now, streams, trimmed, codec, manager, cepVars, session, cycles,
                 mono_events, multi_events, event_archive_status>>

\* _archive_stream, lines 92-114, one iteration of the loop over the entries:
\* the SELECT flushes the session first, an entry with a status row is skipped,
\* another is decoded, stored and marked archived.
ArchEntry(a) ==
  /\ apc[a] = "entry"
  /\ LET stream_name == ArchiveStreams[astream[a]]
         redis_message_id == Head(amsgs[a])
         event_data == StreamContent(stream_name)[redis_message_id]
     IN  IF IntegrityError(a)
           THEN Rollback(a)
         ELSE IF AlreadyArchived(a, stream_name, redis_message_id)
           THEN /\ UNCHANGED <<session, cycles, mono_events, multi_events,
                               event_archive_status>>
                /\ amsgs' = [amsgs EXCEPT ![a] = Tail(@)]
                /\ IF Tail(amsgs[a]) = <<>>
                     THEN NextStream(a)
                     ELSE UNCHANGED <<apc, astream>>
         ELSE IF ~event_data.decodable
           THEN Rollback(a)
         ELSE /\ session' = [session EXCEPT ![a] =
                   IF IsMulti(stream_name)
                     THEN [@ EXCEPT
                             !.multi = @ (+) SetToBag({MultiRow(event_data)}),
                             !.status = @ (+) SetToBag({StatusRow(stream_name,
                                               redis_message_id, event_data)})]
                     ELSE [@ EXCEPT
                             !.mono = @ (+) SetToBag({MonoRow(stream_name, event_data)}),
                             !.status = @ (+) SetToBag({StatusRow(stream_name,
                                               redis_message_id, event_data)})]]
              /\ amsgs' = [amsgs EXCEPT ![a] = Tail(@)]
              /\ IF Tail(amsgs[a]) = <<>>
                   THEN NextStream(a)
                   ELSE UNCHANGED <<apc, astream>>
              /\ UNCHANGED <<cycles, mono_events, multi_events, event_archive_status>>
  /\ UNCHANGED <<now, streams, trimmed, codec, manager, cepVars>>

\* a commit that the database accepts whatever the tables hold (mutation)
ArchCommitUnchecked(a) ==
  /\ apc[a] = "commit"
  /\ mono_events' = mono_events (+) session[a].mono
  /\ multi_events' = multi_events (+) session[a].multi
  /\ event_archive_status' = event_archive_status (+) session[a].status
  /\ apc' = [apc EXCEPT ![a] = "idle"]
  /\ astream' = [astream EXCEPT ![a] = 1]
  /\ session' = [session EXCEPT ![a] = EmptySession]
  /\ cycles' = [cycles EXCEPT ![a] = @ + 1]
  /\ UNCHANGED <<amsgs, now, streams, trimmed, codec, manager, cepVars>>

\* a commit that writes the session's status rows and drops its event rows
\* (mutation)
ArchCommitStatusOnly(a) ==
  /\ apc[a] = "commit"
  /\ IF IntegrityError(a)
       THEN Rollback(a)
       ELSE /\ event_archive_status' = event_archive_status (+) session[a].status
            /\ apc' = [apc EXCEPT ![a] = "idle"]
            /\ astream' = [astream EXCEPT ![a] = 1]
            /\ session' = [session EXCEPT ![a] = EmptySession]
            /\ cycles' = [cycles EXCEPT ![a] = @ + 1]
            /\ UNCHANGED <<amsgs, mono_events, multi_events>>
  /\ UNCHANGED <<now, streams, trimmed, codec, manager, cepVars>>

\* _archive_batch, line 70: session.commit() flushes what is left and commits
\* the transaction; a rejected INSERT rolls all of it back.
ArchCommit(a) ==
  /\ apc[a] = "commit"
  /\ IF IntegrityError(a)
       THEN Rollback(a)
       ELSE /\ mono_events' = mono_events (+) session[a].mono
            /\ multi_events' = multi_events (+) session[a].multi
            /\ event_archive_status' = event_archive_status (+) session[a].status
            /\ apc' = [apc EXCEPT ![a] = "idle"]
            /\ astream' = [astream EXCEPT ![a] = 1]
            /\ session' = [session EXCEPT ![a] = EmptySession]
            /\ cycles' = [cycles EXCEPT ![a] = @ + 1]
            /\ UNCHANGED amsgs
  /\ UNCHANGED <<now, streams, trimmed, codec, manager, cepVars>>

\* the database fails under a statement of the session or under its commit
\* (connection lost, server error)
ArchStorageError(a) ==
  /\ apc[a] \in {"entry", "commit"}
  /\ Rollback(a)
  /\ UNCHANGED <<now, streams, trimmed, codec, manager, cepVars>>

\* start_archival_loop, line 41: the coroutine, scheduled earlier, runs its
\* first statement
ArchStart(a) ==
  /\ apc[a] = "scheduled"
  /\ manager' = [manager EXCEPT ![a].running = TRUE]
  /\ apc' = [apc EXCEPT ![a] = "idle"]
  /\ UNCHANGED <<now, streams, trimmed, codec, cepVars, astream, amsgs, session, cycles,
                 mono_events, multi_events, event_archive_status>>

\* stop_archival_loop
StopArchivalLoop(a) ==
  /\ manager[a].stop_calls < MaxStops
  /\ manager' = [manager EXCEPT ![a].running = FALSE, ![a].stop_calls = @ + 1]
  /\ UNCHANGED <<now, streams, trimmed, codec, cepVars, apc, astream, amsgs, session,
                 cycles, mono_events, multi_events, event_archive_status>>

\* start_archival_loop, line 42: the loop test fails and the coroutine returns
ArchExit(a) ==
  /\ apc[a] = "idle"
  /\ ~manager[a].running
  /\ apc' = [apc EXCEPT ![a] = "stopped"]
  /\ UNCHANGED <<now, streams, trimmed, codec, manager, cepVars, astream, amsgs, session,
                 cycles, mono_events, multi_events, event_archive_status>>

\* the number of entries of a stream that xtrim(minid=cutoff) deletes or has
\* deleted: the entries appended before the cutoff, a prefix of the stream
TrimTo(s) ==
  Max2(trimmed[s],
       Cardinality({i \in 1..Len(StreamContent(s)) :
                      StreamContent(s)[i].timestamp < now - REDIS_TTL_SECONDS}))

\* cleanup_old_redis_data: xtrim of the four streams at the cutoff
CleanupOldRedisData ==
  /\ trimmed' = [s \in DOMAIN trimmed |-> TrimTo(s)]
  /\ UNCHANGED <<now, streams, codec, cepVars, archVars>>

\* Normal operation: the producers append well-formed entries and the worker
\* runs without being killed.
Next ==
  \/ Tick
  \/ \E s \in StreamSet : Produce(s, ProducerValue[s], TRUE)
  \/ CepStart
  \/ CepRead
  \/ CepIngest
  \/ CepCheck
  \/ CepAck

Spec == Init /\ [][Next]_vars

\* The same with kills and restarts of the worker process.
NextCrash ==
  \/ Tick
  \/ \E s \in StreamSet : Produce(s, ProducerValue[s], TRUE)
  \/ CepStart
  \/ CepRead
  \/ CepIngest
  \/ CepCheck
  \/ CepAck
  \/ CepCrash

SpecCrash == Init /\ [][NextCrash]_vars

\* The pipeline with entries in the input streams that from_redis_dict
\* rejects.
NextPoison ==
  \/ Tick
  \/ \E s \in StreamSet : \E ok \in BOOLEAN : Produce(s, ProducerValue[s], ok)
  \/ CepStart
  \/ CepRead
  \/ CepIngest
  \/ CepCheck
  \/ CepAck

SpecPoison == Init /\ [][NextPoison]_vars

\* The pipeline over a broker whose calls can fail.
NextBrokerError ==
  \/ Tick
  \/ \E s \in StreamSet : Produce(s, ProducerValue[s], TRUE)
  \/ CepStart
  \/ CepRead
  \/ CepIngest
  \/ CepCheck
  \/ CepAck
  \/ CepBrokerError

SpecBrokerError == Init /\ [][NextBrokerError]_vars

\* The pipeline with the caller of the worker generator, as in
\* demo_workflow.process_integration.
NextCaller ==
  \/ Tick
  \/ \E s \in StreamSet : Produce(s, ProducerValue[s], TRUE)
  \/ CepStart
  \/ CepRead
  \/ CepIngest
  \/ CepCheckYield
  \/ CallerResume
  \/ CallerBreak
  \/ CepAck

SpecCaller == Init /\ [][NextCaller]_vars

\* The producers, one archiver and the retention trim.
NextTrim ==
  \/ Tick
  \/ \E s \in StreamSet : Produce(s, ProducerValue[s], TRUE)
  \/ ArchBegin("a1")
  \/ ArchRead("a1")
  \/ ArchEntry("a1")
  \/ ArchCommit("a1")
  \/ CleanupOldRedisData

SpecTrim == Init /\ [][NextTrim]_vars

\* The rule engine called directly: a LeafletDomain whose buffer holds any
\* events add_event can have put there, in any order of arrival, and one call
\* of check_correlation whose result is appended to the integrated stream.
BufferedEvent(i, s, ts, v) ==
  [event_id |-> <<"mono", i>>, timestamp |-> ts, source_stream |-> s,
   event_type |-> ProducerType[s], value |-> v]
Buffers(n) ==
  {[i \in 1..n |-> BufferedEvent(i, f[i][1], f[i][2], f[i][3])] :
     f \in [1..n -> StreamSet \X (0..MaxStamp) \X Values]}

InitDomain ==
  /\ now = MaxStamp
  /\ streams = [s \in StreamSet |-> <<>>]
  /\ integrated = <<>>
  /\ trimmed = [s \in StreamSet \cup {STREAM_INTEGRATED} |-> 0]
  /\ pc = "start"
  /\ \E n \in 0..MAX_PENDING_EVENTS : event_buffer \in Buffers(n)
  /\ delivered = [s \in StreamSet |-> 0]
  /\ pel = {}
  /\ batch = <<>>
  /\ ruleIdx = 1
  /\ crashes = 0
  /\ ArchInit
  /\ codec = NoCodec

DomainCheckCorrelation(rule_name) ==
  /\ integrated = <<>>
  /\ integrated' = CheckCorrelation(event_buffer, rule_name, MultiUuid)
  /\ UNCHANGED <<now, streams, trimmed, codec, pc, event_buffer, delivered, pel, batch,
                 ruleIdx, crashes, archVars>>

NextDomain ==
  \E i \in 1..Len(RuleNames) : DomainCheckCorrelation(RuleNames[i])

SpecDomain == InitDomain /\ [][NextDomain]_vars

\* What an earlier run of the worker can have left in the integrated stream.
OldEvent(n, s) ==
  [event_id |-> <<"old", n>>, timestamp |-> 0, source_stream |-> s,
   event_type |-> ProducerType[s], value |-> ProducerValue[s]]
IntegratedLeft ==
  {<<>>,
   CheckCorrelation(<<OldEvent(1, "axon_1"), OldEvent(2, "axon_2")>>,
                    "type_A_and_B_within_window", <<"multi", 1>>)}

\* The archivers, two of them running concurrently, over a broker content
\* that no longer changes: every content the producers can have left in the
\* input streams, entries that do not decode included.
EntryNo(lens, s, i) ==
  i + (IF s = "axon_1" THEN 0
       ELSE IF s = "axon_2" THEN lens["axon_1"]
       ELSE lens["axon_1"] + lens["axon_2"])
BrokerContents ==
  {[s \in StreamSet |->
      [i \in 1..lens[s] |->
         MonoEntry(<<"mono", EntryNo(lens, s, i)>>, 0, ProducerType[s],
                   ProducerValue[s], oks[s][i])]] :
     lens \in {l \in [StreamSet -> 0..MaxEvents] :
                 l["axon_1"] + l["axon_2"] + l["axon_3"] <= MaxEvents},
     oks \in [StreamSet -> [1..MaxEvents -> BOOLEAN]]}

InitFixed ==
  /\ now = 0
  /\ streams \in BrokerContents
  /\ integrated \in IntegratedLeft
  /\ trimmed = [s \in StreamSet \cup {STREAM_INTEGRATED} |-> 0]
  /\ WorkerInit
  /\ ArchInit
  /\ codec = NoCodec

NextFixed ==
  \/ \E a \in Archivers : ArchBegin(a)
  \/ \E a \in Archivers : ArchRead(a)
  \/ \E a \in Archivers : ArchEntry(a)
  \/ \E a \in Archivers : ArchCommit(a)

SpecArchFixed == InitFixed /\ [][NextFixed]_vars

\* The archivers over a broker content in which an event can be carried by
\* more than one entry: appended twice to one stream, or to two streams.
CarriedEvents ==
  {MonoEntry(<<"mono", k>>, 0, "A", ProducerValue["axon_1"], TRUE) : k \in 1..2}
DuplicateContents ==
  {[s \in StreamSet |->
      IF s = "axon_1" THEN x ELSE IF s = "axon_2" THEN y ELSE <<>>] :
     x \in UNION {[1..n -> CarriedEvents] : n \in 0..2},
     y \in UNION {[1..n -> CarriedEvents] : n \in 0..1}}

InitDuplicates ==
  /\ now = 0
  /\ streams \in DuplicateContents
  /\ integrated = <<>>
  /\ trimmed = [s \in StreamSet \cup {STREAM_INTEGRATED} |-> 0]
  /\ WorkerInit
  /\ ArchInit
  /\ codec = NoCodec

SpecArchDuplicates == InitDuplicates /\ [][NextFixed]_vars

\* metadata: a dict as its set of items; the producers write one item
Metadatas == {{}, {<<"producer_interval", 1>>}}

MonoObject(s, ts, v, md) ==
  [event_id |-> <<"mono", 1>>, timestamp |-> ts, source_stream |-> s,
   event_type |-> ProducerType[s], value |-> v, metadata |-> md]

\* the MultiOriginatedEvent that _create_multi_originated_event builds
MultiObject(source_events, rule_name) ==
  LET m == CreateMultiOriginatedEvent(source_events, rule_name, <<"multi", 1>>)
  IN  [event_id |-> m.event_id, timestamp |-> m.timestamp,
       event_type |-> "MULTI_ORIGINATED", source_events |-> m.source_events,
       correlation_rule |-> m.correlation_rule,
       integrated_value |-> m.integrated_value, confidence |-> m.confidence,
       lineage |-> m.lineage]

\* a MultiOriginatedEvent constructed with no source event
MultiObjectNoSources(rule_name) ==
  [event_id |-> <<"multi", 1>>, timestamp |-> now,
   event_type |-> "MULTI_ORIGINATED", source_events |-> <<>>,
   correlation_rule |-> rule_name,
   integrated_value |-> [num |-> 0, den |-> 1],
   confidence |-> [num |-> 0, den |-> 3],
   lineage |-> [s \in {} |-> 0]]

CodecOf(kind, obj) ==
  [kind |-> kind, step |-> "obj", obj |-> <<obj>>, wire |-> <<>>, out |-> <<>>]

InitCodec ==
  /\ now = MaxStamp
  /\ streams = [s \in StreamSet |-> <<>>]
  /\ integrated = <<>>
  /\ trimmed = [s \in StreamSet \cup {STREAM_INTEGRATED} |-> 0]
  /\ WorkerInit
  /\ ArchInit
  /\ \/ \E s \in StreamSet, ts \in 0..MaxStamp, v \in Values, md \in Metadatas :
          codec = CodecOf("mono", MonoObject(s, ts, v, md))
     \/ \E r \in DOMAIN correlation_rules : codec = CodecOf("multi", MultiObjectNoSources(r))
     \/ \E n \in 1..MaxSources : \E buf \in Buffers(n) : \E r \in DOMAIN correlation_rules :
          codec = CodecOf("multi", MultiObject(buf, r))

ToRedisDict ==
  /\ codec.step = "obj"
  /\ codec' = [codec EXCEPT !.step = "wire",
                  !.wire = IF codec.kind = "mono"
                             THEN <<MonoToRedisDict(codec.obj[1])>>
                             ELSE <<MultiToRedisDict(codec.obj[1])>>]
  /\ UNCHANGED <<now, streams, trimmed, cepVars, archVars>>

FromRedisDictOfWire ==
  /\ codec.step = "wire"
  /\ codec' = [codec EXCEPT !.step = "out",
                  !.out = IF codec.kind = "mono"
                            THEN MonoFromRedisDict(codec.wire[1])
                            ELSE MultiFromRedisDict(codec.wire[1])]
  /\ UNCHANGED <<now, streams, trimmed, cepVars, archVars>>

NextCodec == ToRedisDict \/ FromRedisDictOfWire

SpecCodec == InitCodec /\ [][NextCodec]_vars

\* add_event on a buffer that earlier pushes have filled to any length up to
\* the cap, while the clock runs.  delivered counts the events pushed.
AddBuffers(n) ==
  {[i \in 1..n |-> BufferedEvent(i, f[i][1], f[i][2], ProducerValue[f[i][1]])] :
     f \in [1..n -> StreamSet \X (0..MaxStamp)]}

InitAdd ==
  /\ now = MaxStamp
  /\ streams = [s \in StreamSet |-> <<>>]
  /\ integrated = <<>>
  /\ trimmed = [s \in StreamSet \cup {STREAM_INTEGRATED} |-> 0]
  /\ pc = "start"
  /\ \E n \in 0..MAX_PENDING_EVENTS : event_buffer \in AddBuffers(n)
  /\ delivered = [s \in StreamSet |-> 0]
  /\ pel = {}
  /\ batch = <<>>
  /\ ruleIdx = 1
  /\ crashes = 0
  /\ ArchInit
  /\ codec = NoCodec

Pushed == delivered["axon_1"] + delivered["axon_2"] + delivered["axon_3"]
PushedUuid == MAX_PENDING_EVENTS + Pushed + 1

DomainAddEvent(s, ts) ==
  /\ Pushed < MaxPushes
  /\ event_buffer' =
       AddEvent(event_buffer, BufferedEvent(PushedUuid, s, ts, ProducerValue[s]), now)
  /\ delivered' = [delivered EXCEPT ![s] = @ + 1]
  /\ UNCHANGED <<now, streams, trimmed, codec, integrated, pc, pel, batch, ruleIdx,
                 crashes, archVars>>

NextAdd ==
  \/ Tick
  \/ \E s \in StreamSet : \E ts \in 0..now : DomainAddEvent(s, ts)

SpecAdd == InitAdd /\ [][NextAdd]_vars

\* The worker and one archiver over a broker content whose entries carry a
\* source_stream field that names the first input stream, which is their own
\* stream or another one, or no configured stream at all.
SourceNames == {"axon_1", "elsewhere"}
SourceContents ==
  {[s \in StreamSet |->
      [i \in 1..lens[s] |->
         MonoEntryWithSource(<<"mono", EntryNo(lens, s, i)>>, 0, srcs[s][i],
                             ProducerType[s], ProducerValue[s])]] :
     lens \in {l \in [StreamSet -> 0..MaxEvents] :
                 l["axon_1"] + l["axon_2"] + l["axon_3"] <= MaxEvents},
     srcs \in [StreamSet -> [1..MaxEvents -> SourceNames]]}

InitSource ==
  /\ now = 0
  /\ streams \in SourceContents
  /\ integrated = <<>>
  /\ trimmed = [s \in StreamSet \cup {STREAM_INTEGRATED} |-> 0]
  /\ WorkerInit
  /\ ArchInit
  /\ codec = NoCodec

NextSource ==
  \/ CepStart
  \/ CepRead
  \/ CepIngest
  \/ CepCheck
  \/ CepAck
  \/ ArchBegin("a1")
  \/ ArchRead("a1")
  \/ ArchEntry("a1")
  \/ ArchCommit("a1")

SpecSource == InitSource /\ [][NextSource]_vars

\* The archivers over a database that can fail under any statement.
NextArchError ==
  \/ NextFixed
  \/ \E a \in Archivers : ArchStorageError(a)

SpecArchError == InitFixed /\ [][NextArchError]_vars

\* One StorageManager whose start_archival_loop has been scheduled and whose
\* stop_archival_loop can be called at any moment, before the loop has run
\* its first statement included.
InitStop ==
  /\ now = 0
  /\ streams \in BrokerContents
  /\ integrated \in IntegratedLeft
  /\ trimmed = [s \in StreamSet \cup {STREAM_INTEGRATED} |-> 0]
  /\ WorkerInit
  /\ codec = NoCodec
  /\ manager = [a \in Archivers |-> [running |-> FALSE, stop_calls |-> 0]]
  /\ apc = [a \in Archivers |-> "scheduled"]
  /\ astream = [a \in Archivers |-> 1]
  /\ amsgs = [a \in Archivers |-> <<>>]
  /\ session = [a \in Archivers |-> EmptySession]
  /\ cycles = [a \in Archivers |-> 0]
  /\ mono_events = EmptyBag
  /\ multi_events = EmptyBag
  /\ event_archive_status = EmptyBag

NextStop ==
  \/ ArchStart("a1")
  \/ StopArchivalLoop("a1")
  \/ ArchBegin("a1")
  \/ ArchRead("a1")
  \/ ArchEntry("a1")
  \/ ArchCommit("a1")
  \/ ArchExit("a1")

SpecStop == InitStop /\ [][NextStop]_vars

\* ------------------------------------------------------------ properties
AllEntries == UNION {Range(streams[s]) : s \in StreamSet}
MonoById(id) == CHOOSE e \in AllEntries : e.event_id = id
SourcesOf(m) == {MonoById(m.source_events[i]) : i \in 1..Len(m.source_events)}
Emitted == Range(integrated)
Abs(x) == IF x < 0 THEN -x ELSE x

\* C1 (I2): every MultiEvent in the integrated stream cites at least
\* rule.min_events source events and their event types cover
\* rule.required_event_types.
C1_RuleSatisfied ==
  \A m \in Emitted :
    LET rule == correlation_rules[m.correlation_rule]
    IN  /\ Len(m.source_events) >= rule.min_events
        /\ rule.required_event_types \subseteq {e.event_type : e \in SourcesOf(m)}

\* both rules have fired, the three-type rule with three source events
C1_Witness ==
  /\ \E m \in Emitted : m.correlation_rule = "type_A_and_B_within_window"
  /\ \E m \in Emitted : /\ m.correlation_rule = "type_A_B_C_convergence"
                         /\ Len(m.source_events) = 3

\* C2 (I3): any two source events of a MultiEvent have timestamps at most
\* rule.window_duration apart.
C2_WithinWindow ==
  \A m \in Emitted :
    \A e1, e2 \in SourcesOf(m) :
      Abs(e1.timestamp - e2.timestamp)
        <= correlation_rules[m.correlation_rule].duration_seconds

\* the emissions of one rule, in stream order
OfRule(r) ==
  LET IsR(m) == m.correlation_rule = r
  IN  SelectSeq(integrated, IsR)

\* C3 as stated (P5): two consecutive MultiEvents of the same rule never carry
\* the identical source_events list.
C3_NoRepeatedSelection ==
  \A r \in DOMAIN correlation_rules :
    \A i \in 1..(Len(OfRule(r)) - 1) :
      OfRule(r)[i].source_events # OfRule(r)[i + 1].source_events

\* C3 as amended: the worker keeps no last-emission record; a rule fires at
\* every ingress that leaves the buffer satisfying it.  When a rule's new
\* MultiEvent repeats the source_events of that rule's previous one, the
\* entry that triggered it is of a type the rule does not require; an
\* ingress of a required type always changes the selection.
C3_RepeatOnlyOnForeignIngress ==
  [][\A r \in DOMAIN correlation_rules :
       (/\ Len(integrated') = Len(integrated) + 1
        /\ integrated'[Len(integrated')].correlation_rule = r
        /\ OfRule(r) # <<>>
        /\ OfRule(r)[Len(OfRule(r))].source_events
             = integrated'[Len(integrated')].source_events)
       => streams[Head(batch)[1]][Head(batch)[2]].event_type
            \notin correlation_rules[r].required_event_types]_vars

\* a rule has emitted the same selection twice in a row
C3_Witness ==
  \E r \in DOMAIN correlation_rules :
    \E i \in 1..(Len(OfRule(r)) - 1) :
      OfRule(r)[i].source_events = OfRule(r)[i + 1].source_events

\* what the rule loop appends for the buffer as it stands: rule and selection
\* of the MultiEvent of every rule the buffer satisfies, in rule order
Selection(m) == <<m.correlation_rule, m.source_events>>
ExpectedEmissions ==
  LET all == Concat([i \in 1..Len(RuleNames) |->
                       CheckCorrelation(event_buffer, RuleNames[i], MultiUuid)])
  IN  [k \in 1..Len(all) |-> Selection(all[k])]
LastEmissions(n) ==
  [k \in 1..n |-> Selection(integrated[Len(integrated) - n + k])]

\* C6: an entry is acknowledged (leaves the pending list) only after it was
\* pushed into the buffer, all rules were evaluated, and every MultiEvent it
\* triggers is in the integrated stream.
C6_EmitBeforeAck ==
  [][\A m \in pel \ pel' :
       LET e == streams[m[1]][m[2]]
       IN  /\ m = Head(batch)
           /\ ruleIdx > Len(RuleNames)
           /\ \/ \E i \in 1..Len(event_buffer) : event_buffer[i].event_id = e.event_id
              \/ e.timestamp < now - CORRELATION_WINDOW_SECONDS
           /\ Len(integrated) >= Len(ExpectedEmissions)
           /\ LastEmissions(Len(ExpectedEmissions)) = ExpectedEmissions
           /\ integrated' = integrated]_vars

\* an entry that triggered both rules has been acknowledged, and so has one
\* that triggered none
C6_Witness ==
  /\ pc = "read"
  /\ pel = {}
  /\ \A s \in StreamSet : Len(streams[s]) = 1 /\ delivered[s] = 1
  /\ Len(integrated) = 2
  /\ integrated[1].correlation_rule = "type_A_and_B_within_window"
  /\ integrated[2].correlation_rule = "type_A_B_C_convergence"

\* C7 as stated: entries left pending by a kill between the append and the
\* acknowledgement are delivered again: a read that returns hands the worker
\* every entry of the pending list.
C7_PendingRedelivered ==
  [][(pc = "read" /\ pc' = "ingest") => pel \subseteq Range(batch')]_vars

\* ---------------------------------------------------- archival properties
Tables == <<mono_events, multi_events, event_archive_status>>
ArchiveStreamSet == StreamSet \cup {STREAM_INTEGRATED}
\* the message ids of a stream that one xread of the archiver returns
InBatch(s) == 1..Min2(Len(StreamContent(s)), MAX_EVENTS_PER_ARCHIVE_BATCH)
BatchOf(S) ==
  {m \in S \X (1..MAX_EVENTS_PER_ARCHIVE_BATCH) : m[2] \in InBatch(m[1])}
AllDecodable ==
  \A s \in ArchiveStreamSet : \A i \in 1..Len(StreamContent(s)) :
    StreamContent(s)[i].decodable
BatchesDecodable ==
  \A m \in BatchOf(ArchiveStreamSet) : StreamContent(m[1])[m[2]].decodable
OnlyFirstArchiverRan == cycles["a2"] = 0 /\ apc["a2"] = "idle"
InputStatusCount ==
  BagCardinality([r \in {x \in BagToSet(event_archive_status) :
                           x.stream_name \in StreamSet}
                    |-> event_archive_status[r]])

\* C11 as stated: every entry a trim deletes from a stream has a status row
\* in event_archive_status.
C11_TrimOnlyArchived ==
  [][\A s \in DOMAIN trimmed : \A i \in (trimmed[s] + 1)..trimmed'[s] :
       \E r \in BagToSet(event_archive_status) :
         r.stream_name = s /\ r.redis_message_id = i]_vars

\* the buffered events a MultiEvent cites, in the order of source_events
Buffered(id) == CHOOSE e \in Range(event_buffer) : e.event_id = id
Cited(m) == [i \in 1..Len(m.source_events) |-> Buffered(m.source_events[i])]
CitedOf(m, s) == {i \in 1..Len(m.source_events) : Cited(m)[i].source_stream = s}

\* C12 as stated (I4): the lineage entry of a stream carries the newest
\* timestamp among the cited events of that stream.
C12_LineageNewest ==
  \A m \in Emitted : \A s \in DOMAIN m.lineage :
    \A i \in CitedOf(m, s) : m.lineage[s].timestamp >= Cited(m)[i].timestamp

\* C12 amended: the lineage entry of a stream describes the cited event of
\* that stream that arrived last (the last one in source_events), whatever
\* its timestamp.
C12_LineageLastArrived ==
  \A m \in Emitted : \A s \in DOMAIN m.lineage :
    \E i \in CitedOf(m, s) :
      /\ \A j \in CitedOf(m, s) : j <= i
      /\ m.lineage[s].event_id = m.source_events[i]
      /\ m.lineage[s].timestamp = Cited(m)[i].timestamp
      /\ m.lineage[s].value = Cited(m)[i].value

\* a MultiEvent cites two events of one stream, the later arrival the older,
\* and its lineage describes that later arrival
C12_Witness ==
  \E m \in Emitted : \E s \in DOMAIN m.lineage :
    \E i, j \in CitedOf(m, s) :
      /\ i < j
      /\ Cited(m)[j].timestamp < Cited(m)[i].timestamp
      /\ m.lineage[s].event_id = m.source_events[j]

\* C13: the keys of lineage are exactly the source streams of the cited
\* events, and every lineage entry names one of the cited events.
C13_LineageKeys ==
  \A m \in Emitted :
    /\ DOMAIN m.lineage = {Cited(m)[i].source_stream : i \in 1..Len(m.source_events)}
    /\ \A s \in DOMAIN m.lineage : m.lineage[s].event_id \in Range(m.source_events)

\* a MultiEvent cites four events of two streams and its lineage has two keys
C13_Witness ==
  \E m \in Emitted :
    /\ Len(m.source_events) = 4
    /\ DOMAIN m.lineage = {"axon_1", "axon_2"}

\* the sum of the values of the cited events
RECURSIVE CitedSum(_)
CitedSum(ids) ==
  IF ids = <<>> THEN 0 ELSE Buffered(Head(ids)).value + CitedSum(Tail(ids))

\* C14 (I7): integrated_value is the arithmetic mean of the values of the
\* events listed in source_events.
C14_IntegratedValueIsMean ==
  \A m \in Emitted :
    /\ m.integrated_value.den > 0
    /\ m.integrated_value.num * Len(m.source_events)
         = m.integrated_value.den * CitedSum(m.source_events)

\* a MultiEvent over three events of values 10, 20, 20, whose mean 50/3 is
\* not the mean of any two of them
C14_Witness ==
  \E m \in Emitted :
    /\ Len(m.source_events) = 3
    /\ CitedSum(m.source_events) = 50
    /\ m.integrated_value.num * 3 = m.integrated_value.den * 50

\* C15 (I6): confidence = min(1, len(source_events) / 3): 1 from three source
\* events on, 2/3 for two, always within [0, 1].
C15_Confidence ==
  \A m \in Emitted :
    LET n == Len(m.source_events)
        c == m.confidence
    IN  /\ c.den > 0 /\ 0 <= c.num /\ c.num <= c.den
        /\ IF n >= 3 THEN c.num = c.den ELSE c.num * 3 = c.den * n

\* a MultiEvent with four source events, where the cap applies
C15_Witness ==
  \E m \in Emitted :
    /\ Len(m.source_events) = 4
    /\ m.confidence.num = m.confidence.den

\* the buffered events of the types a rule requires, in buffer order
MatchingIds(r) ==
  LET InRule(e) == e.event_type \in correlation_rules[r].required_event_types
      sel == SelectSeq(event_buffer, InRule)
  IN  [i \in 1..Len(sel) |-> sel[i].event_id]

\* C16 as stated: the cited set holds, for each required type, the newest
\* buffered event of that type, and is not extended beyond min_events: when
\* the required types number min_events it has exactly min_events events.
C16_SelectionPolicy ==
  \A m \in Emitted :
    LET rule == correlation_rules[m.correlation_rule]
    IN  /\ \A ty \in rule.required_event_types :
             \E i \in 1..Len(m.source_events) :
               /\ Cited(m)[i].event_type = ty
               /\ \A e \in Range(event_buffer) :
                    e.event_type = ty => e.timestamp <= Cited(m)[i].timestamp
        /\ Cardinality(rule.required_event_types) = rule.min_events
             => Len(m.source_events) = rule.min_events

\* C16 amended: a MultiEvent cites every buffered event whose type the rule
\* requires, in buffer order: the newest of each required type is among
\* them, and min_events is only a lower bound on their number.
C16_SelectionIsAllMatching ==
  \A m \in Emitted :
    LET rule == correlation_rules[m.correlation_rule]
    IN  /\ m.source_events = MatchingIds(m.correlation_rule)
        /\ Len(m.source_events) >= rule.min_events
        /\ \A ty \in rule.required_event_types :
             \E i \in 1..Len(m.source_events) :
               /\ Cited(m)[i].event_type = ty
               /\ \A e \in Range(event_buffer) :
                    e.event_type = ty => e.timestamp <= Cited(m)[i].timestamp

\* the two-type rule has fired on a buffer of four matching events and cites
\* all four
C16_Witness ==
  \E m \in Emitted :
    /\ m.correlation_rule = "type_A_and_B_within_window"
    /\ correlation_rules[m.correlation_rule].min_events = 2
    /\ Len(m.source_events) = 4

\* two consecutive emissions of rule AB: the first cites [A, B], the second
\* was triggered by a newer B2 and still cites A
TypeOfId(id) == MonoById(id).event_type
SupersedingPair(i) ==
  LET f == OfRule("type_A_and_B_within_window")[i].source_events
      g == OfRule("type_A_and_B_within_window")[i + 1].source_events
  IN  /\ Len(f) = 2
      /\ TypeOfId(f[1]) = "A" /\ TypeOfId(f[2]) = "B"
      /\ f[1] \in Range(g)
      /\ TypeOfId(g[Len(g)]) = "B"
      /\ g[Len(g)] # f[2]

\* C17 as stated: that second emission cites [id_A, id_B2], without the
\* superseded B.
C17_SupersededDropped ==
  \A i \in 1..(Len(OfRule("type_A_and_B_within_window")) - 1) :
    LET f == OfRule("type_A_and_B_within_window")[i].source_events
        g == OfRule("type_A_and_B_within_window")[i + 1].source_events
    IN  SupersedingPair(i) => g = <<f[1], g[Len(g)]>>

\* C17 amended: that second emission cites [id_A, id_B, id_B2]: it differs
\* from the first and ends with B2, and the superseded B is still in it.
C17_SupersededKept ==
  \A i \in 1..(Len(OfRule("type_A_and_B_within_window")) - 1) :
    LET f == OfRule("type_A_and_B_within_window")[i].source_events
        g == OfRule("type_A_and_B_within_window")[i + 1].source_events
    IN  SupersedingPair(i) => g = <<f[1], f[2], g[Len(g)]>>

\* A then B fired the rule and a newer B2 fired it again
C17_Witness ==
  \E i \in 1..(Len(OfRule("type_A_and_B_within_window")) - 1) : SupersedingPair(i)

\* the entries the worker has read and acknowledged
Processed ==
  {e \in AllEntries :
     \E s \in StreamSet : \E i \in 1..delivered[s] :
       i <= Len(streams[s]) /\ streams[s][i] = e /\ <<s, i>> \notin pel}
\* a set of entries that satisfies a rule within a span shorter than the window
SatisfiesWithin(E, r) ==
  /\ correlation_rules[r].required_event_types \subseteq {e.event_type : e \in E}
  /\ \A e \in E : e.event_type \in correlation_rules[r].required_event_types
  /\ Cardinality(E) >= correlation_rules[r].min_events
  /\ \A e1, e2 \in E :
       e1.timestamp - e2.timestamp < correlation_rules[r].duration_seconds

C19_PoisonAckedAndSkipped ==
  [][(/\ pc = "ingest"
      /\ ~streams[Head(batch)[1]][Head(batch)[2]].decodable
      /\ <<pc, batch, pel, event_buffer>>' # <<pc, batch, pel, event_buffer>>)
     => /\ Head(batch) \notin pel'
        /\ event_buffer' = event_buffer
        /\ batch' = Tail(batch)
        /\ pc' \in {"ingest", "read"}]_vars

\* C20 as stated: after a completed archival cycle every decodable entry of
\* every stream's batch is in mono_events, whether or not the batches hold
\* entries that do not decode, and no entry that does not decode has a
\* status row.
C20_PoisonDoesNotBlock ==
  (OnlyFirstArchiverRan /\ cycles["a1"] >= 1 /\ apc["a1"] = "idle")
  => \A m \in BatchOf(StreamSet) :
       IF streams[m[1]][m[2]].decodable
         THEN BagIn(MonoRow(m[1], streams[m[1]][m[2]]), mono_events)
         ELSE \A r \in BagToSet(event_archive_status) :
                ~(r.stream_name = m[1] /\ r.redis_message_id = m[2])

\* C21 as stated (R2): after a completed archival cycle over entries that
\* all decode, two of which may carry the same event, mono_events holds
\* exactly one row for the event_id of every entry of the batches and every
\* one of these entries has its status row.
C21_InsertIdempotent ==
  (OnlyFirstArchiverRan /\ cycles["a1"] >= 1 /\ apc["a1"] = "idle")
  => \A m \in BatchOf(StreamSet) :
       /\ \E r \in BagToSet(mono_events) :
            /\ r.event_id = streams[m[1]][m[2]].event_id
            /\ CopiesIn(r, mono_events) = 1
            /\ \A q \in BagToSet(mono_events) : q.event_id = r.event_id => q = r
       /\ \E r \in BagToSet(event_archive_status) :
            r.stream_name = m[1] /\ r.redis_message_id = m[2]

\* C22 (R1): from_redis_dict(to_redis_dict(e)) is e for every
\* MonoOriginatedEvent, with or without metadata, and for every
\* MultiOriginatedEvent of at least 2 source events, whose order is kept.
C22_RoundTrip ==
  (/\ codec.step = "out"
   /\ codec.kind = "multi" => Len(codec.obj[1].source_events) >= 2)
  => codec.out = codec.obj

C22_Witness ==
  /\ codec.step = "out" /\ codec.kind = "multi"
  /\ Len(codec.obj[1].source_events) = 2
  /\ codec.obj[1].source_events[1] # codec.obj[1].source_events[2]
  /\ codec.out = codec.obj

\* C23 as stated: the buffer never holds more than max_pending_events events,
\* and a push into a full buffer drops the oldest-arrived event and keeps
\* the pushed one.
C23_PushedKept ==
  /\ [](Len(event_buffer) <= MAX_PENDING_EVENTS)
  /\ [][(Pushed' = Pushed + 1 /\ Len(event_buffer) = MAX_PENDING_EVENTS)
         => /\ \A i \in 1..Len(event_buffer') :
                 event_buffer'[i].event_id # event_buffer[1].event_id
            /\ event_buffer' # <<>>
            /\ event_buffer'[Len(event_buffer')].event_id = <<"mono", PushedUuid>>]_vars

\* C23 (size_cap, backpressure), amended: the buffer never holds more than
\* max_pending_events events; a push into a full buffer drops the
\* oldest-arrived event, and keeps the pushed one as the newest of the buffer
\* unless the pruning of the same push empties the buffer, which it does
\* only when the pushed event and every event that stood behind the evicted
\* one are older than now - window.
C23_SizeCap ==
  /\ [](Len(event_buffer) <= MAX_PENDING_EVENTS)
  /\ [][(Pushed' = Pushed + 1 /\ Len(event_buffer) = MAX_PENDING_EVENTS)
         => /\ \A i \in 1..Len(event_buffer') :
                 event_buffer'[i].event_id # event_buffer[1].event_id
            /\ \/ /\ event_buffer' # <<>>
                  /\ event_buffer'[Len(event_buffer')].event_id = <<"mono", PushedUuid>>
               \/ /\ event_buffer' = <<>>
                  /\ \A i \in 2..Len(event_buffer) :
                       event_buffer[i].timestamp < now - CORRELATION_WINDOW_SECONDS]_vars

C23_Witness ==
  /\ Pushed = 1
  /\ Len(event_buffer) = MAX_PENDING_EVENTS
  /\ event_buffer[1].event_id = <<"mono", 2>>
  /\ event_buffer[MAX_PENDING_EVENTS].event_id = <<"mono", MAX_PENDING_EVENTS + 1>>

\* the buffered events stand in the order of their timestamps, as they do
\* when the events arrive in timestamp order
InTimestampOrder(buf) ==
  \A i, j \in 1..Len(buf) : i <= j => buf[i].timestamp <= buf[j].timestamp

\* C24 (out-of-window suppression): when the events have arrived in
\* timestamp order, an event more than the window older than the event just
\* pushed is no longer in the buffer when the rules are evaluated, and no
\* emitted MultiEvent cites two events more than the window apart.
C24_OutOfWindowSuppressed ==
  /\ []((pc = "check" /\ InTimestampOrder(event_buffer))
         => \A i \in 1..Len(event_buffer) :
              event_buffer[Len(event_buffer)].timestamp - event_buffer[i].timestamp
                <= CORRELATION_WINDOW_SECONDS)
  /\ [][(Len(integrated') = Len(integrated) + 1 /\ InTimestampOrder(event_buffer))
         => \A e1, e2 \in SourcesOf(integrated'[Len(integrated')]) :
              Abs(e1.timestamp - e2.timestamp) <= CORRELATION_WINDOW_SECONDS]_vars

\* A stamped 0 and B stamped 3 have both been processed, A first: nothing
\* was emitted and only B is left in the buffer
C24_Witness ==
  /\ Len(streams["axon_1"]) = 1 /\ streams["axon_1"][1].timestamp = 0
  /\ Len(streams["axon_2"]) = 1 /\ streams["axon_2"][1].timestamp = 3
  /\ streams["axon_3"] = <<>>
  /\ delivered["axon_1"] = 1 /\ delivered["axon_2"] = 1
  /\ pc = "read" /\ pel = {}
  /\ integrated = <<>>
  /\ Len(event_buffer) = 1
  /\ event_buffer[1].event_id = streams["axon_2"][1].event_id

\* C25 as stated: when add_event has returned, the buffer holds no event
\* whose timestamp is older than now - window, wherever the timestamps of
\* the other buffered events lie.
C25_NoExpiredAfterPush ==
  [][(pc = "ingest" /\ pc' = "check")
     => \A i \in 1..Len(event_buffer') :
          event_buffer'[i].timestamp >= now - CORRELATION_WINDOW_SECONDS]_vars

\* the entries of a stream without a status row in a status table
Uncheckpointed(s, status) ==
  {i \in 1..Len(StreamContent(s)) :
     ~\E r \in BagToSet(status) : r.stream_name = s /\ r.redis_message_id = i}

\* C26 as stated: a cycle's read starts at the smallest entry without a
\* checkpoint, so a cycle that completes over a stream holding an
\* un-checkpointed entry (all entries decodable) checkpoints at least one of
\* them, however many entries the stream holds.
C26_ProgressEveryCycle ==
  [][(/\ OnlyFirstArchiverRan /\ AllDecodable
      /\ apc["a1"] = "commit" /\ apc'["a1"] = "idle")
     => \A s \in ArchiveStreamSet :
          Uncheckpointed(s, event_archive_status) # {}
            => Uncheckpointed(s, event_archive_status')
                 # Uncheckpointed(s, event_archive_status)]_vars

\* C27: without trimming, the checkpointed message ids of a stream are a
\* prefix of the stream's entries in broker-id order: no entry has a status
\* row while an earlier entry of the same stream has none.
C27_CheckpointsArePrefix ==
  \A s \in ArchiveStreamSet : \A i \in 1..Len(StreamContent(s)) :
    i \notin Uncheckpointed(s, event_archive_status)
      => \A j \in 1..(i - 1) : j \notin Uncheckpointed(s, event_archive_status)

\* a stream of three entries whose first two are checkpointed
C27_Witness ==
  \E s \in StreamSet :
    /\ Len(streams[s]) = 3
    /\ Uncheckpointed(s, event_archive_status) = {3}

\* C28: a call of the rule engine returns no or one MultiEvent, none for a
\* rule name it does not know; after each ingress the worker calls it once
\* for every configured rule, in the order of the rule table, before it
\* acknowledges, so an ingress appends at most one MultiEvent per rule.
C28_OneCallPerRule ==
  /\ [](/\ CheckCorrelation(event_buffer, "no_such_rule", MultiUuid) = <<>>
        /\ \A r \in DOMAIN correlation_rules :
             Len(CheckCorrelation(event_buffer, r, MultiUuid)) <= 1)
  /\ [][/\ (pc = "ingest" /\ pc' = "check") => ruleIdx' = 1
        /\ (pc = "check" /\ pc' # "check") => ruleIdx = Len(RuleNames) + 1
        /\ ruleIdx' # ruleIdx
             => \/ ruleIdx' = 1 /\ pc # "check"
                \/ ruleIdx' = ruleIdx + 1 /\ pc = "check" /\ pc' = "check"
        /\ integrated' # integrated
             => /\ pc = "check" /\ ruleIdx \in 1..Len(RuleNames)
                /\ ruleIdx' = ruleIdx + 1
                /\ Len(integrated') = Len(integrated) + 1
                /\ SubSeq(integrated', 1, Len(integrated)) = integrated
                /\ integrated'[Len(integrated')].correlation_rule
                     = RuleNames[ruleIdx]]_vars

\* the rule loop of one ingress has ended after appending two MultiEvents,
\* one per rule
C28_Witness ==
  /\ pc = "check" /\ ruleIdx = Len(RuleNames) + 1
  /\ Len(integrated) = 2
  /\ integrated[1].correlation_rule = RuleNames[1]
  /\ integrated[2].correlation_rule = RuleNames[2]
  /\ \A k \in 1..2 :
       integrated[k].source_events[Len(integrated[k].source_events)]
         = event_buffer[Len(event_buffer)].event_id

\* the entries the worker has been handed by xreadgroup
Observed ==
  {streams[s][i].event_id : <<s, i>> \in
     {x \in StreamSet \X (1..MaxEvents) : x[2] <= Min2(delivered[x[1]], Len(streams[x[1]]))}}

\* C29: a MultiEvent is appended to the integrated stream only when every
\* event of its source_events has been read from an input stream and pushed,
\* and all of them are in the buffer at that moment.
C29_SourcesObserved ==
  [][Len(integrated') > Len(integrated)
     => \A k \in (Len(integrated) + 1)..Len(integrated') :
          \A i \in 1..Len(integrated'[k].source_events) :
            /\ integrated'[k].source_events[i] \in Observed
            /\ \E j \in 1..Len(event_buffer) :
                 event_buffer[j].event_id = integrated'[k].source_events[i]]_vars

\* a MultiEvent is in the integrated stream while a produced event has not
\* been read yet
C29_Witness ==
  /\ Len(integrated) >= 1
  /\ \E s \in StreamSet : delivered[s] < Len(streams[s])
  /\ \A i \in 1..Len(integrated[1].source_events) :
       integrated[1].source_events[i] \in Observed

\* C30 as stated: within one input stream the worker pushes the entries in
\* broker-id order and acknowledges them in that order: when it pushes an
\* entry, every earlier entry of that stream has been pushed and acknowledged
\* (all of them were delivered to it), and an acknowledgement leaves no
\* earlier entry of that stream pending.
C30_BrokerOrder ==
  /\ [][(pc = "ingest" /\ pc' = "check")
         => \A j \in 1..(Head(batch)[2] - 1) :
              /\ <<Head(batch)[1], j>> \notin pel
              /\ <<Head(batch)[1], j>> \notin Range(batch)]_vars
  /\ [][pel' # pel /\ pel' \subseteq pel
         => /\ pel \ pel' = {Head(batch)}
            /\ \A j \in 1..(Head(batch)[2] - 1) :
                 <<Head(batch)[1], j>> \notin pel]_vars

\* C31 as stated: a broker error raised by a read, an append or an
\* acknowledgement does not end the worker loop, and the window buffer holds
\* the same events after it as before: from its read and from its rule loop
\* the worker goes on to a state of the loop with its buffer as it was.
C31_BrokerErrorRetried ==
  [][(pc \in {"read", "check"})
     => /\ pc' \in {"read", "ingest", "check"}
        /\ event_buffer' = event_buffer]_vars

\* C32: a storage error ends the cycle without committing any of its
\* inserts and leaves the loop between two iterations with an empty session,
\* ready for the next cycle; a cycle that ends either changes no table or
\* commits its whole session; and once a cycle of a single archiver has
\* committed, every decodable entry its reads return is archived, whatever
\* cycles were aborted before.
C32_StorageErrorAbortsCycle ==
  /\ [][\A a \in Archivers :
          (apc[a] \in {"entry", "commit"} /\ apc'[a] \notin {"read", "entry", "commit"})
          => /\ apc'[a] = "idle"
             /\ cycles'[a] = cycles[a] + 1
             /\ session'[a] = EmptySession
             /\ \/ Tables' = Tables
                \/ /\ apc[a] = "commit"
                   /\ event_archive_status'
                        = event_archive_status (+) session[a].status]_vars
  /\ []((/\ OnlyFirstArchiverRan /\ BatchesDecodable
         /\ apc["a1"] = "idle" /\ event_archive_status # EmptyBag)
        => \A m \in BatchOf(ArchiveStreamSet) :
             m[2] \notin Uncheckpointed(m[1], event_archive_status))

\* the first cycle of a single archiver over decodable entries has ended
\* without committing anything: a storage error aborted it
C32_Witness ==
  /\ OnlyFirstArchiverRan /\ BatchesDecodable
  /\ BatchOf(ArchiveStreamSet) # {}
  /\ cycles["a1"] = 1 /\ apc["a1"] = "idle"
  /\ Tables = <<EmptyBag, EmptyBag, EmptyBag>>

\* C33 as stated: once stop_archival_loop has been called, the loop starts
\* no further archival batch, also when the call comes before the loop has
\* run its first statement.
C33_StopObserved ==
  [][manager["a1"].stop_calls > 0
     => ~(apc["a1"] = "idle" /\ apc'["a1"] = "read")]_vars

\* C34 as stated: after shutdown has been requested (the caller's deadline
\* has passed) the worker loop performs no new read.
C34_NoReadAfterShutdown ==
  [][now > DemoDuration => delivered' = delivered]_vars

\* C39: a MultiEvent is yielded right after it was appended to the output
\* stream and before the entry that triggered it is acknowledged; the entry
\* is acknowledged only once the caller has resumed the generator after
\* every yield and the rule loop has ended; if the caller abandons the
\* generator at a yield, the entry stays pending although its MultiEvent is
\* in the output stream.
C39_YieldBeforeAck ==
  /\ [][integrated' # integrated => (pc' = "yielded" /\ pel' = pel)]_vars
  /\ [](pc \in {"yielded", "closed"}
        => /\ batch # <<>> /\ Head(batch) \in pel
           /\ integrated # <<>>
           /\ ruleIdx \in 2..(Len(RuleNames) + 1)
           /\ integrated[Len(integrated)].correlation_rule = RuleNames[ruleIdx - 1])
  /\ [][pel' # pel /\ pel' \subseteq pel
        => (pc = "check" /\ ruleIdx = Len(RuleNames) + 1)]_vars
  /\ [][pc = "closed" => (pc' = "closed" /\ pel' = pel)]_vars

\* the caller has abandoned the generator: the MultiEvent is in the output
\* stream and the entry that triggered it is pending
C39_Witness ==
  /\ pc = "closed"
  /\ integrated # <<>>
  /\ Head(batch) \in pel

\* C35 as stated: an archival cycle is followed, in the same iteration of
\* the loop, by a retention trim of all tracked streams: when the iteration
\* ends, no archived entry older than redis_ttl is left in the broker.
C35_TrimAfterArchival ==
  [][(apc["a1"] = "commit" /\ apc'["a1"] = "idle")
     => \A s \in ArchiveStreamSet : \A i \in 1..Len(StreamContent(s)) :
          (/\ StreamContent(s)[i].timestamp < now - REDIS_TTL_SECONDS
           /\ i \notin Uncheckpointed(s, event_archive_status'))
          => i <= trimmed'[s]]_vars

\* the stream that holds the entry of an event
StreamOf(id) ==
  CHOOSE s \in StreamSet : \E i \in 1..Len(streams[s]) : streams[s][i].event_id = id

\* C36: the source_stream of every buffered event and of every row of
\* mono_events is the stream its entry was read from, whatever the entry's
\* own source_stream field says; the lineage keys of every MultiEvent are
\* configured input streams.
C36_SourceStreamIsStreamRead ==
  /\ \A i \in 1..Len(event_buffer) :
       event_buffer[i].source_stream = StreamOf(event_buffer[i].event_id)
  /\ \A r \in BagToSet(mono_events) : r.source_stream = StreamOf(r.event_id)
  /\ \A k \in 1..Len(integrated) : DOMAIN integrated[k].lineage \subseteq StreamSet

\* an entry whose field names no configured stream is in the buffer, in
\* mono_events and in the lineage of a MultiEvent
C36_Witness ==
  \E s \in StreamSet : \E i \in 1..Len(streams[s]) :
    /\ streams[s][i].source_stream = "elsewhere"
    /\ \E j \in 1..Len(event_buffer) :
         event_buffer[j].event_id = streams[s][i].event_id
    /\ \E r \in BagToSet(mono_events) : r.event_id = streams[s][i].event_id
    /\ \E k \in 1..Len(integrated) :
         /\ s \in DOMAIN integrated[k].lineage
         /\ integrated[k].lineage[s].event_id = streams[s][i].event_id

\* C37: in the committed tables every checkpoint row has an event row with
\* its event_id in the table of its stream's class, mono_events for an input
\* stream and multi_events for the integrated stream, and every event row
\* has a checkpoint row with its event_id for a stream of its class.
C37_CheckpointsMatchRows ==
  /\ \A r \in BagToSet(event_archive_status) :
       IF r.stream_name \in StreamSet
         THEN \E e \in BagToSet(mono_events) :
                e.event_id = r.event_id /\ e.source_stream = r.stream_name
         ELSE /\ r.stream_name = STREAM_INTEGRATED
              /\ \E e \in BagToSet(multi_events) : e.event_id = r.event_id
  /\ \A e \in BagToSet(mono_events) :
       \E r \in BagToSet(event_archive_status) :
         r.event_id = e.event_id /\ r.stream_name = e.source_stream
  /\ \A e \in BagToSet(multi_events) :
       \E r \in BagToSet(event_archive_status) :
         r.event_id = e.event_id /\ r.stream_name = STREAM_INTEGRATED

\* rows of both classes have been committed with their checkpoints
C37_Witness ==
  /\ mono_events # EmptyBag
  /\ multi_events # EmptyBag
  /\ BagCardinality(event_archive_status)
       = BagCardinality(mono_events) + BagCardinality(multi_events)

\* C38: the buffer is a contiguous suffix of the events pushed so far, in
\* arrival order: a push leaves the old buffer followed by the pushed event,
\* less a number of events dropped from the head; no event is removed while
\* an earlier-arrived one stays, none is reordered and none appears twice.
C38_ContiguousSuffix ==
  /\ [][event_buffer' # event_buffer
        => \E d \in 0..(Len(event_buffer) + 1) :
             /\ Len(event_buffer') = Len(event_buffer) + 1 - d
             /\ \A i \in 1..(Len(event_buffer') - 1) :
                  event_buffer'[i] = event_buffer[i + d]
             /\ event_buffer' # <<>>
                  => event_buffer'[Len(event_buffer')].event_id
                       = <<"mono", PushedUuid>>]_vars
  /\ [](\A i, j \in 1..Len(event_buffer) :
          event_buffer[i].event_id = event_buffer[j].event_id => i = j)

\* a push into a full buffer has dropped the head by overflow and two more
\* events by expiry, and kept the last old event and the pushed one
C38_Witness ==
  /\ Pushed = 1
  /\ Len(event_buffer) = 2
  /\ event_buffer[1].event_id = <<"mono", MAX_PENDING_EVENTS>>
  /\ event_buffer[2].event_id = <<"mono", MAX_PENDING_EVENTS + 1>>

\* the rules evaluated so far for the entry being processed whose
\* evaluation on the buffer as it is now returns a MultiEvent
EvaluatedFiring ==
  {j \in 1..(ruleIdx - 1) :
     CheckCorrelation(event_buffer, RuleNames[j], <<"multi", 0>>) # <<>>}

\* C40: evaluating a rule, whether it returns a MultiEvent or not, leaves
\* the buffer as it is, events and order; so the result of a rule does not
\* depend on the rules evaluated before it: the MultiEvents appended for an
\* entry are those that each rule returns on the buffer as the push left it.
C40_EvaluationLeavesBuffer ==
  /\ [][(pc = "check" /\ pc' = "check") => event_buffer' = event_buffer]_vars
  /\ [](pc = "check"
        => /\ Len(integrated) >= Cardinality(EvaluatedFiring)
           /\ \A j \in EvaluatedFiring :
                LET p == Cardinality({i \in EvaluatedFiring : i <= j})
                    m == integrated[Len(integrated) - Cardinality(EvaluatedFiring) + p]
                    r == CheckCorrelation(event_buffer, RuleNames[j], m.event_id)[1]
                IN  /\ m.correlation_rule = RuleNames[j]
                    /\ m.source_events = r.source_events
                    /\ m.integrated_value = r.integrated_value
                    /\ m.lineage = r.lineage)

\* both rules have been evaluated for one entry and both returned a
\* MultiEvent, the second on the buffer the first evaluation left
C40_Witness ==
  /\ pc = "check" /\ ruleIdx = Len(RuleNames) + 1
  /\ EvaluatedFiring = 1..Len(RuleNames)
  /\ Len(event_buffer) = 3

\* C4 (P2, I5): event_archive_status holds at most one row for each
\* (stream_name, redis_message_id).
C4_OneStatusRowPerMessage ==
  \A r1, r2 \in BagToSet(event_archive_status) :
    (r1.stream_name = r2.stream_name /\ r1.redis_message_id = r2.redis_message_id)
    => (r1 = r2 /\ CopiesIn(r1, event_archive_status) = 1)

\* one archiver has committed a status row that the other holds in its
\* open session
C4_Witness ==
  \E a \in Archivers :
    \E r \in BagToSet(session[a].status) : BagIn(r, event_archive_status)

\* C5 as stated (P3): once two archival cycles have completed without a
\* storage failure over an unchanged broker, every mono entry of the broker
\* is in mono_events, however many entries a stream holds.
C5_ArchivedWithinOneMoreCycle ==
  (/\ OnlyFirstArchiverRan
   /\ cycles["a1"] = 2 /\ apc["a1"] = "idle"
   /\ AllDecodable)
  => \A s \in StreamSet : \A i \in 1..Len(streams[s]) :
       BagIn(MonoRow(s, streams[s][i]), mono_events)

\* C8: the committed tables change only by a commit that adds every row of
\* one session at once; every other step, a cycle failing part-way included,
\* leaves them as they were.
C8_AtomicBatch ==
  [][\/ Tables' = Tables
     \/ \E a \in Archivers :
          /\ apc[a] = "commit"
          /\ mono_events' = mono_events (+) session[a].mono
          /\ multi_events' = multi_events (+) session[a].multi
          /\ event_archive_status' = event_archive_status (+) session[a].status]_vars

\* a cycle has failed on an undecodable entry after it had added the rows of
\* a decodable one, and the tables are empty
C8_Witness ==
  /\ OnlyFirstArchiverRan
  /\ cycles["a1"] = 1 /\ apc["a1"] = "idle"
  /\ Len(streams["axon_1"]) >= 1 /\ streams["axon_1"][1].decodable
  /\ Len(streams["axon_2"]) >= 1 /\ ~streams["axon_2"][1].decodable
  /\ mono_events = EmptyBag /\ event_archive_status = EmptyBag

\* what one archiver alone leaves in the tables: an event row and a status row
\* for every entry of every stream's batch, or nothing when an entry of a
\* batch does not decode
SingleArchiverTables ==
  IF BatchesDecodable
    THEN <<SetToBag({MonoRow(m[1], streams[m[1]][m[2]]) : m \in BatchOf(StreamSet)}),
           SetToBag({MultiRow(integrated[m[2]]) : m \in BatchOf({STREAM_INTEGRATED})}),
           SetToBag({StatusRow(m[1], m[2], StreamContent(m[1])[m[2]]) :
                       m \in BatchOf(ArchiveStreamSet)})>>
    ELSE <<EmptyBag, EmptyBag, EmptyBag>>

\* C9 (R3): when two archivers have run concurrently over the same broker
\* content and both are idle again, the tables hold what a single archiver
\* leaves.
C9_ConcurrentSameAsSingle ==
  (\A a \in Archivers : apc[a] = "idle" /\ cycles[a] >= 1)
  => Tables = SingleArchiverTables

\* both archivers have completed a cycle over a content with entries in an
\* input stream and in the integrated stream, and the tables are filled
C9_Witness ==
  /\ \A a \in Archivers : apc[a] = "idle" /\ cycles[a] = 1
  /\ BagCardinality(mono_events) >= 2
  /\ BagCardinality(multi_events) = 1

\* C10: with one archiver, from its first completed cycle on the tables hold
\* exactly the rows of that cycle, whatever further cycles run; for n
\* decodable mono entries within the batch limit that is n rows in mono_events
\* and n status rows for the input streams.
C10_SequentialIdempotent ==
  (OnlyFirstArchiverRan /\ cycles["a1"] >= 1)
  => /\ Tables = SingleArchiverTables
     /\ (/\ BatchesDecodable
         /\ \A s \in StreamSet : Len(streams[s]) <= MAX_EVENTS_PER_ARCHIVE_BATCH)
        => /\ BagCardinality(mono_events) = Produced
           /\ InputStatusCount = Produced

\* the archiver has run twice over two entries of one stream and one of another
C10_Witness ==
  /\ OnlyFirstArchiverRan
  /\ cycles["a1"] = 2 /\ apc["a1"] = "idle"
  /\ Len(streams["axon_1"]) = 2 /\ Len(streams["axon_3"]) = 1
  /\ BagCardinality(mono_events) = Produced
  /\ InputStatusCount = Produced

====
